---- MODULE Spec2Model ----
(***************************************************************************)
(* A model of src/utils.ts of github-tag-action: the tag filter/sorter,    *)
(* the tag selectors, the commit scoper, the custom release rule expander  *)
(* and the rule merger.  Strings are sequences of one-character strings,   *)
(* so that split, toLowerCase, length, the prefix strip, the semver parse  *)
(* and the regular expression matches are computed character by character. *)
(***************************************************************************)
EXTENDS Integers, Sequences, FiniteSets, TLC

VARIABLES
  pc,                  \* position of the modelled run
  log,                 \* core.warning / core.debug calls, in order
  customRules,         \* the rules the input string was written from (parts)
  customReleaseTypes,  \* the input string of mapCustomReleaseRules
  mappedReleaseRules,  \* the argument of mergeWithDefaultChangelogRules
  mergedRules,         \* mergeWithDefaultChangelogRules: the reduced table
  changelogRules,      \* mergeWithDefaultChangelogRules: the returned list
  listedTags,          \* what listTags returned
  validTags,           \* what getValidTags returned
  latestTag,           \* what getLatestTag returned
  tagsArg,             \* the list handed to getLatestPrereleaseTag
  identifier,          \* the identifier handed to getLatestPrereleaseTag
  latestPrereleaseTag, \* what getLatestPrereleaseTag returned
  rawCommits,          \* what compareCommits returned
  commits,             \* what getCommits returned
  scopes,              \* the scopes handed to getScopedCommits
  scopedCommits        \* what getScopedCommits returned

ruleVars == <<customRules, customReleaseTypes, mappedReleaseRules,
              mergedRules, changelogRules>>
tagVars == <<listedTags, validTags, latestTag, tagsArg, identifier,
             latestPrereleaseTag>>
commitVars == <<rawCommits, commits, scopes, scopedCommits>>
vars == <<pc, log, ruleVars, tagVars, commitVars>>

----------------------------------------------------------------------------
(* Bounds *)

MaxRules == 2
MaxMergeRules == 2

----------------------------------------------------------------------------
(* Strings *)

\* JavaScript's undefined, as a value no character sequence equals.
Undefined == <<"undefined">>

\* Truthiness of a string-or-undefined value: undefined and "" are falsy.
Truthy(s) == s # Undefined /\ s # <<>>

RECURSIVE IndexOf(_, _, _)
\* The first index >= i of character c in s, 0 when there is none.
IndexOf(s, c, i) ==
  IF i > Len(s) THEN 0
  ELSE IF s[i] = c THEN i
  ELSE IndexOf(s, c, i + 1)

RECURSIVE Split(_, _)
\* String.prototype.split with a one-character separator.
Split(s, sep) ==
  LET i == IndexOf(s, sep, 1) IN
  IF i = 0 THEN <<s>>
  ELSE <<SubSeq(s, 1, i - 1)>> \o Split(SubSeq(s, i + 1, Len(s)), sep)

RECURSIVE Join(_, _)
\* Array.prototype.join with a one-character separator.
Join(parts, sep) ==
  IF Len(parts) = 0 THEN <<>>
  ELSE IF Len(parts) = 1 THEN parts[1]
  ELSE parts[1] \o <<sep>> \o Join(Tail(parts), sep)

Digits == <<"0", "1", "2", "3", "4", "5", "6", "7", "8", "9">>
Letters ==
  <<"a", "b", "c", "d", "e", "f", "g", "h", "i", "j", "k", "l", "m", "n",
    "o", "p", "q", "r", "s", "t", "u", "v", "w", "x", "y", "z">>
Capitals ==
  <<"A", "B", "C", "D", "E", "F", "G", "H", "I", "J", "K", "L", "M", "N",
    "O", "P", "Q", "R", "S", "T", "U", "V", "W", "X", "Y", "Z">>

LowerChar(c) ==
  IF \E i \in 1..26 : Capitals[i] = c
  THEN Letters[CHOOSE i \in 1..26 : Capitals[i] = c]
  ELSE c

\* String.prototype.toLowerCase.
ToLowerCase(s) == [i \in 1..Len(s) |-> LowerChar(s[i])]

\* Array.prototype.includes.
Includes(list, x) == \E i \in 1..Len(list) : list[i] = x

RECURSIVE Flat(_)
\* Array.prototype.flat (depth 1).
Flat(lists) ==
  IF Len(lists) = 0 THEN <<>> ELSE Head(lists) \o Flat(Tail(lists))

----------------------------------------------------------------------------
(* Words of the rule grammar *)

releaseRuleSeparator == ","
releaseTypeSeparator == ":"

w_docs == <<"d", "o", "c", "s">>
w_Docs == <<"D", "o", "c", "s">>
w_feat == <<"f", "e", "a", "t">>
w_chore == <<"c", "h", "o", "r", "e">>
w_x == <<"x">>
w_major == <<"m", "a", "j", "o", "r">>
w_premajor == <<"p", "r", "e", "m", "a", "j", "o", "r">>
w_minor == <<"m", "i", "n", "o", "r">>
w_preminor == <<"p", "r", "e", "m", "i", "n", "o", "r">>
w_patch == <<"p", "a", "t", "c", "h">>
w_prepatch == <<"p", "r", "e", "p", "a", "t", "c", "h">>
w_prerelease == <<"p", "r", "e", "r", "e", "l", "e", "a", "s", "e">>
w_b == <<"b">>
w_S == <<"S">>
w_Documentation ==
  <<"D", "o", "c", "u", "m", "e", "n", "t", "a", "t", "i", "o", "n">>
w_Features == <<"F", "e", "a", "t", "u", "r", "e", "s">>

\* The release types of @semantic-release/commit-analyzer.
DEFAULT_RELEASE_TYPES ==
  <<w_major, w_premajor, w_minor, w_preminor, w_patch, w_prepatch,
    w_prerelease>>

\* The built-in table of ./defaults, in insertion order: commit type ->
\* {type, release, section}.  No operation of utils.ts reads a default's
\* release.  The chore entry carries no section: the final filter of the
\* merger is what removes such an entry.
defaultChangelogRules ==
  << [type |-> w_feat, release |-> Undefined, section |-> w_Features],
     [type |-> w_docs, release |-> Undefined, section |-> w_Documentation],
     [type |-> w_chore, release |-> Undefined, section |-> Undefined] >>

\* The value of a missing property, and of the section of a missing rule
\* (defaultRule?.section).
UndefinedRule ==
  [type |-> Undefined, release |-> Undefined, section |-> Undefined]

\* defaultChangelogRules[key]
DefaultRule(key) ==
  IF \E i \in 1..Len(defaultChangelogRules) :
       defaultChangelogRules[i].type = key
  THEN defaultChangelogRules[
         CHOOSE i \in 1..Len(defaultChangelogRules) :
           defaultChangelogRules[i].type = key]
  ELSE UndefinedRule

----------------------------------------------------------------------------
(* mapCustomReleaseRules *)

Warning(text, arg) == [level |-> "warning", text |-> text, arg |-> arg]
Debug(text, arg) == [level |-> "debug", text |-> text, arg |-> arg]

\* The condition under which the two "section" debug lines are written:
\* the length of the rule's string, not the number of its parts.
MentionsNoSection(customReleaseRule) == Len(customReleaseRule) # 3

ValidReleaseType_Unchecked(release) == TRUE

\* The release type check of the filter callback.
ValidReleaseType(release) == Includes(DEFAULT_RELEASE_TYPES, release)

\* The filter callback: whether the rule is kept, and what it logs.
FilterRule(customReleaseRule) ==
  LET parts == Split(customReleaseRule, releaseTypeSeparator) IN
  IF Len(parts) < 2
  THEN [keep |-> FALSE,
        log |-> <<Warning("is not a valid custom release definition",
                          customReleaseRule)>>]
  ELSE
    LET defaultRule == DefaultRule(ToLowerCase(parts[1]))
        dbg ==
          IF MentionsNoSection(customReleaseRule)
          THEN << Debug("doesn't mention the section for the changelog",
                        customReleaseRule),
                  IF defaultRule # UndefinedRule
                  THEN Debug("Default section will be used instead",
                             defaultRule.section)
                  ELSE Debug("won't be included in the changelog",
                             customReleaseRule) >>
          ELSE <<>>
    IN IF ~ValidReleaseType(parts[2])
       THEN [keep |-> FALSE,
             log |-> dbg \o <<Warning("is not a valid release type",
                                      parts[2])>>]
       ELSE [keep |-> TRUE, log |-> dbg]

ExpandedPair_LiteralFirst(type, release, section) ==
  << [type |-> type, release |-> release, section |-> section,
      breaking |-> FALSE],
     [type |-> type, release |-> w_major, section |-> section,
      breaking |-> TRUE] >>

\* The two rules one accepted rule is expanded into, in the order returned.
ExpandedPair(type, release, section) ==
  << [type |-> type, release |-> w_major, section |-> section,
      breaking |-> TRUE],
     [type |-> type, release |-> release, section |-> section,
      breaking |-> FALSE] >>

\* section || defaultRule?.section
SectionOrDefault(section, defaultRule) ==
  IF Truthy(section) THEN section ELSE defaultRule.section

\* The map callback.
ExpandRule(customReleaseRule) ==
  LET parts == Split(customReleaseRule, releaseTypeSeparator)
      type == parts[1]
      release == parts[2]
      section == IF Len(parts) >= 3 THEN parts[3] ELSE Undefined
      defaultRule == DefaultRule(ToLowerCase(type))
  IN ExpandedPair(type, release, SectionOrDefault(section, defaultRule))

\* mapCustomReleaseRules: the returned list and the diagnostics written.
MapCustomReleaseRules(input) ==
  LET rules == Split(input, releaseRuleSeparator)
      filtered == [i \in 1..Len(rules) |-> FilterRule(rules[i])]
      kept == SelectSeq([i \in 1..Len(rules) |-> i],
                        LAMBDA i : filtered[i].keep)
  IN [rules |-> Flat([k \in 1..Len(kept) |-> ExpandRule(rules[kept[k]])]),
      log |-> Flat([i \in 1..Len(rules) |-> filtered[i].log])]

----------------------------------------------------------------------------
(* mergeWithDefaultChangelogRules *)

RECURSIVE KeyIndex(_, _, _)
\* The position of key in the table's keys from i on, 0 when absent.
KeyIndex(table, key, i) ==
  IF i > Len(table) THEN 0
  ELSE IF table[i].key = key THEN i
  ELSE KeyIndex(table, key, i + 1)

Overlay_FirstWins(acc, curr) ==
  IF KeyIndex(acc, curr.type, 1) = 0
  THEN Append(acc, [key |-> curr.type, value |-> curr])
  ELSE acc

\* {...acc, [curr.type]: curr}: an existing key keeps its place and takes
\* the new value, a new key is appended.
Overlay(acc, curr) ==
  LET i == KeyIndex(acc, curr.type, 1) IN
  IF i = 0 THEN Append(acc, [key |-> curr.type, value |-> curr])
  ELSE [acc EXCEPT ![i] = [key |-> curr.type, value |-> curr]]

RECURSIVE Reduce(_, _)
\* mappedReleaseRules.reduce(..., acc)
Reduce(rules, acc) ==
  IF Len(rules) = 0 THEN acc
  ELSE Reduce(Tail(rules), Overlay(acc, Head(rules)))

\* {...defaultChangelogRules}
DefaultTable ==
  [i \in 1..Len(defaultChangelogRules) |->
     [key |-> defaultChangelogRules[i].type,
      value |-> defaultChangelogRules[i]]]

HasSection_Unfiltered(rule) == TRUE

\* (rule) => !!rule.section
HasSection(rule) == Truthy(rule.section)

\* Object.values(mergedRules).filter(...)
SectionedValues(table) ==
  SelectSeq([i \in 1..Len(table) |-> table[i].value], HasSection)

----------------------------------------------------------------------------
(* Inputs *)

RuleTypes == {w_docs, w_Docs, w_x}
RuleReleases == {w_patch, w_minor, w_b}
RuleSections == {<<>>, w_S}

\* A custom rule as written, as its ':'-separated parts: one part (the
\* empty string among them), two, three, and one rule of four.
RuleParts ==
  {<<t>> : t \in RuleTypes \cup {<<>>}}
    \cup {<<t, r>> : t \in RuleTypes, r \in RuleReleases}
    \cup {<<t, r, s>> : t \in RuleTypes, r \in RuleReleases,
                         s \in RuleSections}
    \cup {<<w_x, w_patch, w_S, w_S>>}

SeqsUpTo(S, n) == UNION {[1..k -> S] : k \in 0..n}
SeqsFrom1(S, n) == UNION {[1..k -> S] : k \in 1..n}

\* The rule lists handed to mergeWithDefaultChangelogRules directly.
MergeRules ==
  [type : {w_docs, w_x}, release : {w_patch},
   section : {Undefined, <<>>, w_S}, breaking : BOOLEAN]

WriteRules(rules) ==
  Join([i \in 1..Len(rules) |-> Join(rules[i], releaseTypeSeparator)],
       releaseRuleSeparator)

----------------------------------------------------------------------------
(* The rule pipeline *)

\* The runs of the rule pipeline fetch no tags and no commits.
NoTags ==
  /\ listedTags = <<>>
  /\ validTags = <<>>
  /\ latestTag = <<>>
  /\ tagsArg = <<>>
  /\ identifier = <<>>
  /\ latestPrereleaseTag = <<>>

NoCommits ==
  /\ rawCommits = <<>>
  /\ commits = <<>>
  /\ scopes = <<>>
  /\ scopedCommits = <<>>

\* A run either maps a custom rule string and merges the result, or hands
\* mergeWithDefaultChangelogRules a rule list of the caller's (the empty
\* list is the parameter's default).
InitRules ==
  /\ \/ /\ pc = "start"
        /\ customRules \in SeqsFrom1(RuleParts, MaxRules)
        /\ mappedReleaseRules = <<>>
     \/ /\ pc = "call"
        /\ customRules = <<>>
        /\ mappedReleaseRules \in SeqsUpTo(MergeRules, MaxMergeRules)
  /\ customReleaseTypes = WriteRules(customRules)
  /\ log = <<>>
  /\ mergedRules = <<>>
  /\ changelogRules = <<>>
  /\ NoTags
  /\ NoCommits

MapRules ==
  /\ pc = "start"
  /\ LET r == MapCustomReleaseRules(customReleaseTypes) IN
       /\ mappedReleaseRules' = r.rules
       /\ log' = r.log
  /\ pc' = "mapped"
  /\ UNCHANGED <<customRules, customReleaseTypes, mergedRules, changelogRules,
                 tagVars, commitVars>>

Merge(rules) ==
  /\ mergedRules' = Reduce(rules, DefaultTable)
  /\ changelogRules' = SectionedValues(mergedRules')

MergeMapped ==
  /\ pc = "mapped"
  /\ Merge(mappedReleaseRules)
  /\ pc' = "merged"
  /\ UNCHANGED <<customRules, customReleaseTypes, mappedReleaseRules, log,
                 tagVars, commitVars>>

MergeGiven ==
  /\ pc = "call"
  /\ Merge(mappedReleaseRules)
  /\ pc' = "given"
  /\ UNCHANGED <<customRules, customReleaseTypes, mappedReleaseRules, log,
                 tagVars, commitVars>>

NextRules == MapRules \/ MergeMapped \/ MergeGiven

SpecRules == InitRules /\ [][NextRules]_vars

----------------------------------------------------------------------------
(* Properties of the rule pipeline, stated over the rules as written *)

Range(s) == {s[i] : i \in 1..Len(s)}

\* A rule as written is accepted: two parts or more, and a release type of
\* the allowed vocabulary.
Accepted(parts) == Len(parts) >= 2 /\ parts[2] \in Range(DEFAULT_RELEASE_TYPES)

AcceptedRules == SelectSeq(customRules, Accepted)

\* The section both rules of an accepted rule are to carry.
WrittenSection(parts) ==
  IF Len(parts) >= 3 /\ parts[3] # <<>> THEN parts[3]
  ELSE IF \E d \in Range(defaultChangelogRules) : d.type = ToLowerCase(parts[1])
       THEN (CHOOSE d \in Range(defaultChangelogRules) :
               d.type = ToLowerCase(parts[1])).section
       ELSE Undefined

Mapped == pc \in {"mapped", "merged"}

\* C1: the output of mapCustomReleaseRules is, in input order, one pair per
\* accepted rule and nothing else: the breaking/major rule immediately
\* before the literal rule, both with the rule's type and the same section
\* (the explicit one, else the default table's for the lowercased type,
\* else undefined); so its length is twice the number of accepted rules.
C1_PairsInOrder ==
  Mapped =>
    /\ Len(mappedReleaseRules) = 2 * Len(AcceptedRules)
    /\ \A k \in 1..Len(AcceptedRules) :
         LET parts == AcceptedRules[k] IN
         /\ mappedReleaseRules[2 * k - 1] =
              [type |-> parts[1], release |-> w_major,
               section |-> WrittenSection(parts), breaking |-> TRUE]
         /\ mappedReleaseRules[2 * k] =
              [type |-> parts[1], release |-> parts[2],
               section |-> WrittenSection(parts), breaking |-> FALSE]

C1_Witness ==
  /\ pc = "mapped"
  /\ Len(mappedReleaseRules) = 4
  /\ mappedReleaseRules[1].section = w_Documentation
  /\ mappedReleaseRules[3].section = Undefined

WarningsWith(text) ==
  Cardinality({i \in 1..Len(log) :
                 log[i].level = "warning" /\ log[i].text = text})

\* C2: a rule with fewer than 2 parts, or with a release outside
\* DEFAULT_RELEASE_TYPES, adds nothing to the output and causes exactly one
\* warning; the other rules are expanded as if it were absent.
C2_RejectedRules ==
  Mapped =>
    /\ WarningsWith("is not a valid custom release definition")
         = Cardinality({i \in 1..Len(customRules) : Len(customRules[i]) < 2})
    /\ WarningsWith("is not a valid release type")
         = Cardinality({i \in 1..Len(customRules) :
                          /\ Len(customRules[i]) >= 2
                          /\ ~Accepted(customRules[i])})
    /\ Cardinality({i \in 1..Len(log) : log[i].level = "warning"})
         = Len(customRules) - Len(AcceptedRules)
    /\ Len(mappedReleaseRules) = 2 * Len(AcceptedRules)
    /\ \A i \in 1..Len(mappedReleaseRules) :
         mappedReleaseRules[i].release \in Range(DEFAULT_RELEASE_TYPES)
    /\ mappedReleaseRules
         = MapCustomReleaseRules(WriteRules(AcceptedRules)).rules

C2_Witness ==
  /\ pc = "mapped"
  /\ \E i, j \in 1..Len(customRules) :
       /\ i < j
       /\ Len(customRules[i]) >= 2 /\ ~Accepted(customRules[i])
       /\ Accepted(customRules[j])
  /\ Len(mappedReleaseRules) = 2
  /\ WarningsWith("is not a valid release type") = 1

\* The last rule of a list with the given type.
LastOfType(rules, type) ==
  rules[CHOOSE i \in 1..Len(rules) :
          /\ rules[i].type = type
          /\ \A j \in (i + 1)..Len(rules) : rules[j].type # type]

IsCustom(rule) == "breaking" \in DOMAIN rule

\* C3: merging the expander's output leaves one rule per type key; for a
\* custom type it is the literal-release rule (breaking: false) of the last
\* accepted custom rule of that type, the default rule of the same type is
\* replaced, and no breaking/major rule is in the final output.
C3_LiteralVariantSurvives ==
  pc = "merged" =>
    /\ \A i, j \in 1..Len(mergedRules) :
         mergedRules[i].key = mergedRules[j].key => i = j
    /\ \A i \in 1..Len(mergedRules) :
         mergedRules[i].value.type = mergedRules[i].key
    /\ \A k \in 1..Len(AcceptedRules) :
         LET type == AcceptedRules[k][1]
             last == AcceptedRules[
                       CHOOSE i \in 1..Len(AcceptedRules) :
                         /\ AcceptedRules[i][1] = type
                         /\ \A j \in (i + 1)..Len(AcceptedRules) :
                              AcceptedRules[j][1] # type]
             literal == [type |-> type, release |-> last[2],
                         section |-> WrittenSection(last),
                         breaking |-> FALSE]
         IN /\ \E i \in 1..Len(mergedRules) :
                 mergedRules[i] = [key |-> type, value |-> literal]
            /\ \A i \in 1..Len(changelogRules) :
                 changelogRules[i].type = type => changelogRules[i] = literal
            /\ Truthy(literal.section) => literal \in Range(changelogRules)
    /\ \A i \in 1..Len(changelogRules) :
         IsCustom(changelogRules[i]) => ~changelogRules[i].breaking

C3_Witness ==
  /\ pc = "merged"
  /\ Len(AcceptedRules) = 2
  /\ AcceptedRules[1][1] = w_docs /\ AcceptedRules[2][1] = w_docs
  /\ AcceptedRules[1][2] = w_patch /\ AcceptedRules[2][2] = w_minor
  /\ Len(changelogRules) = 2
  /\ changelogRules[2].release = w_minor

\* C4: every rule of the merger's output has a truthy section; a type whose
\* surviving rule has a falsy section is absent from the output, the
\* default of that type included; the defaults of types the input does
\* not name are kept exactly when they carry a section.
C4_SectionFilter ==
  pc \in {"merged", "given"} =>
    /\ \A i \in 1..Len(changelogRules) : Truthy(changelogRules[i].section)
    /\ \A r \in Range(mappedReleaseRules) :
         ~Truthy(LastOfType(mappedReleaseRules, r.type).section) =>
           \A i \in 1..Len(changelogRules) : changelogRules[i].type # r.type
    /\ \A d \in Range(defaultChangelogRules) :
         (\A r \in Range(mappedReleaseRules) : r.type # d.type) =>
           (d \in Range(changelogRules) <=> Truthy(d.section))

C4_Witness ==
  /\ pc = "given"
  /\ Len(mappedReleaseRules) = 2
  /\ mappedReleaseRules[1].type = w_docs
  /\ mappedReleaseRules[1].section = w_S
  /\ mappedReleaseRules[2].type = w_docs
  /\ mappedReleaseRules[2].section = Undefined
  /\ \A i \in 1..Len(changelogRules) : changelogRules[i].type # w_docs
  /\ Len(changelogRules) = 1

SectionDebugs(rule) ==
  Cardinality({i \in 1..Len(log) :
                 /\ log[i].level = "debug"
                 /\ log[i].text = "doesn't mention the section for the changelog"
                 /\ log[i].arg = rule})

\* C9: the "doesn't mention the section" debug lines are written for a rule
\* of exactly two parts (type:release) and are not written for a rule that
\* gives an explicit section (type:release:section).
C9_SectionDebugOnlyWithoutSection ==
  Mapped =>
    \A i \in 1..Len(customRules) :
      LET parts == customRules[i]
          rule == Join(parts, releaseTypeSeparator)
      IN /\ Len(parts) = 2 =>
              SectionDebugs(rule)
                = Cardinality({j \in 1..Len(customRules) :
                                 customRules[j] = parts})
         /\ (Len(parts) = 3 /\ parts[3] # <<>>) => SectionDebugs(rule) = 0

\* C10: a custom rule whose type equals a default type up to letter case
\* overrides that default: the final output holds a single rule for the
\* type, the custom one, and the default of that type is gone.
C10_CaseInsensitiveOverride ==
  pc = "merged" =>
    \A k \in 1..Len(AcceptedRules) :
      LET type == AcceptedRules[k][1] IN
      DefaultRule(ToLowerCase(type)) # UndefinedRule =>
        /\ Cardinality({i \in 1..Len(changelogRules) :
              ToLowerCase(changelogRules[i].type) = ToLowerCase(type)}) <= 1
        /\ \A i \in 1..Len(changelogRules) :
             ToLowerCase(changelogRules[i].type) = ToLowerCase(type) =>
               IsCustom(changelogRules[i])

----------------------------------------------------------------------------
(* semver: valid, prerelease, compare and rcompare on character sequences *)

IsDigit(c) == Includes(Digits, c)
IsLetter(c) == Includes(Letters, c) \/ Includes(Capitals, c)

\* The order of the UTF-16 code units of the characters in use:
\* '-' < digits < upper case < lower case.
CharCode(c) ==
  IF c = "-" THEN 0
  ELSE IF IsDigit(c) THEN CHOOSE i \in 1..10 : Digits[i] = c
  ELSE IF Includes(Letters, c) THEN 40 + (CHOOSE i \in 1..26 : Letters[i] = c)
  ELSE 11 + (CHOOSE i \in 1..26 : Capitals[i] = c)

RECURSIVE NumVal(_)
\* The number a sequence of digits writes.
NumVal(s) ==
  IF Len(s) = 0 THEN 0
  ELSE 10 * NumVal(SubSeq(s, 1, Len(s) - 1))
         + (CHOOSE i \in 1..10 : Digits[i] = s[Len(s)]) - 1

AllDigits(s) == Len(s) > 0 /\ \A i \in 1..Len(s) : IsDigit(s[i])

\* NUMERICIDENTIFIER: 0|[1-9]\d*
NumericIdentifier(s) == AllDigits(s) /\ (Len(s) = 1 \/ s[1] # "0")

\* BUILDIDENTIFIER: [0-9A-Za-z-]+
BuildIdentifier(s) ==
  Len(s) > 0 /\ \A i \in 1..Len(s) :
                  IsDigit(s[i]) \/ IsLetter(s[i]) \/ s[i] = "-"

\* PRERELEASEIDENTIFIER: a numeric identifier, or \d*[a-zA-Z-][a-zA-Z0-9-]*
PrereleaseIdentifier(s) ==
  BuildIdentifier(s) /\ (AllDigits(s) => NumericIdentifier(s))

NotSemVer == [ok |-> FALSE]

\* new SemVer(version): the FULL pattern ^v?MAIN(-PRERELEASE)?(\+BUILD)?$
Parse(version) ==
  LET s == IF Len(version) > 0 /\ version[1] = "v" THEN Tail(version)
           ELSE version
      plus == IndexOf(s, "+", 1)
      noBuild == IF plus = 0 THEN s ELSE SubSeq(s, 1, plus - 1)
      build == IF plus = 0 THEN <<>>
               ELSE Split(SubSeq(s, plus + 1, Len(s)), ".")
      dash == IndexOf(noBuild, "-", 1)
      main == Split(IF dash = 0 THEN noBuild
                    ELSE SubSeq(noBuild, 1, dash - 1), ".")
      pre == IF dash = 0 THEN <<>>
             ELSE Split(SubSeq(noBuild, dash + 1, Len(noBuild)), ".")
  IN IF /\ Len(main) = 3
        /\ \A i \in 1..3 : NumericIdentifier(main[i])
        /\ \A i \in 1..Len(pre) : PrereleaseIdentifier(pre[i])
        /\ \A i \in 1..Len(build) : BuildIdentifier(build[i])
     THEN [ok |-> TRUE, major |-> NumVal(main[1]), minor |-> NumVal(main[2]),
           patch |-> NumVal(main[3]), prerelease |-> pre, build |-> build]
     ELSE NotSemVer

\* valid(version), as a truth value: a version string or null.
Valid(version) == Parse(version).ok

\* prerelease(version), as a truth value: a non-empty list of identifiers, or
\* null (also for a version that does not parse).
Prerelease(version) ==
  Parse(version).ok /\ Len(Parse(version).prerelease) > 0

Sign(n) == IF n < 0 THEN -1 ELSE IF n > 0 THEN 1 ELSE 0

RECURSIVE StringLess(_, _)
\* a < b on strings.
StringLess(a, b) ==
  IF Len(b) = 0 THEN FALSE
  ELSE IF Len(a) = 0 THEN TRUE
  ELSE IF a[1] # b[1] THEN CharCode(a[1]) < CharCode(b[1])
  ELSE StringLess(Tail(a), Tail(b))

\* compareIdentifiers of two different identifiers.
CompareIdentifiers(a, b) ==
  IF AllDigits(a) /\ AllDigits(b) THEN Sign(NumVal(a) - NumVal(b))
  ELSE IF AllDigits(a) THEN -1
  ELSE IF AllDigits(b) THEN 1
  ELSE IF StringLess(a, b) THEN -1 ELSE 1

RECURSIVE ComparePreFrom(_, _, _)
ComparePreFrom(a, b, i) ==
  IF i > Len(a) /\ i > Len(b) THEN 0
  ELSE IF i > Len(b) THEN 1
  ELSE IF i > Len(a) THEN -1
  ELSE IF a[i] = b[i] THEN ComparePreFrom(a, b, i + 1)
  ELSE CompareIdentifiers(a[i], b[i])

\* SemVer.comparePre
ComparePre(a, b) ==
  IF Len(a) > 0 /\ Len(b) = 0 THEN -1
  ELSE IF Len(a) = 0 /\ Len(b) > 0 THEN 1
  ELSE IF Len(a) = 0 /\ Len(b) = 0 THEN 0
  ELSE ComparePreFrom(a, b, 1)

\* compare(a, b) of two valid versions: the main version, then the
\* prerelease; the build is ignored.
Compare(a, b) ==
  LET x == Parse(a)
      y == Parse(b)
  IN IF x.major # y.major THEN Sign(x.major - y.major)
     ELSE IF x.minor # y.minor THEN Sign(x.minor - y.minor)
     ELSE IF x.patch # y.patch THEN Sign(x.patch - y.patch)
     ELSE ComparePre(x.prerelease, y.prerelease)

\* rcompare(a, b)
RCompare(a, b) == Compare(b, a)

RECURSIVE ContainsAt(_, _, _)
ContainsAt(s, sub, i) ==
  IF i + Len(sub) - 1 > Len(s) THEN FALSE
  ELSE IF SubSeq(s, i, i + Len(sub) - 1) = sub THEN TRUE
  ELSE ContainsAt(s, sub, i + 1)

\* s.match(identifier) as a truth value, for an identifier of letters and
\* digits: the regular expression of such a string matches where the string
\* occurs.
Match(s, sub) == ContainsAt(s, sub, 1)

----------------------------------------------------------------------------
(* getValidTags, getLatestTag, getLatestPrereleaseTag *)

\* The tag prefix of the run, and what prefixRegex (^v) removes.
tagPrefix == <<"v">>

\* tag.name.replace(prefixRegex, '')
StripPrefix(name) ==
  IF Len(name) >= Len(tagPrefix) /\ SubSeq(name, 1, Len(tagPrefix)) = tagPrefix
  THEN SubSeq(name, Len(tagPrefix) + 1, Len(name))
  ELSE name

\* The filter callback of validTags.
IsValidTag(tag) == Valid(StripPrefix(tag.name))

TagOrder_Ascending(a, b) == Compare(StripPrefix(a.name), StripPrefix(b.name))

\* The sort callback: negative when a is to come before b.
TagOrder(a, b) == RCompare(StripPrefix(a.name), StripPrefix(b.name))

RECURSIVE InsertSorted(_, _)
\* x put after the elements that are not to come after it.
InsertSorted(sorted, x) ==
  IF Len(sorted) = 0 THEN <<x>>
  ELSE IF TagOrder(Head(sorted), x) <= 0
       THEN <<Head(sorted)>> \o InsertSorted(Tail(sorted), x)
       ELSE <<x>> \o sorted

RECURSIVE SortTags(_)
\* Array.prototype.sort with TagOrder: a stable sort.
SortTags(tags) ==
  IF Len(tags) = 0 THEN <<>>
  ELSE InsertSorted(SortTags(SubSeq(tags, 1, Len(tags) - 1)), tags[Len(tags)])

\* getValidTags: the returned list and the debug lines written.
GetValidTags(tags) ==
  LET invalidTags == SelectSeq(tags, LAMBDA tag : ~IsValidTag(tag))
      valids == SortTags(SelectSeq(tags, IsValidTag))
  IN [tags |-> valids,
      log |-> [i \in 1..Len(invalidTags) |->
                 Debug("Found Invalid Tag", invalidTags[i])]
              \o [i \in 1..Len(valids) |->
                    Debug("Found Valid Tag", valids[i].name)]]

\* Array.prototype.find: the first element of a list, undefined when empty.
UndefinedTag == [name |-> Undefined, commit |-> [sha |-> "undefined"]]
FirstOrUndefined(tags) == IF Len(tags) = 0 THEN UndefinedTag ELSE Head(tags)

IsStableTag_Any(tag) == TRUE

\* The find callback of getLatestTag.
IsStableTag(tag) == ~Prerelease(StripPrefix(tag.name))

\* The tag getLatestTag falls back to.
ZeroTag(prefix) ==
  [name |-> prefix \o <<"0", ".", "0", ".", "0">>, commit |-> [sha |-> "HEAD"]]

\* getLatestTag
GetLatestTag(tags, prefix) ==
  LET found == FirstOrUndefined(SelectSeq(tags, IsStableTag)) IN
  IF found # UndefinedTag THEN found ELSE ZeroTag(prefix)

\* The filter callback of getLatestPrereleaseTag.
IsPrereleaseTag(tag) == Prerelease(StripPrefix(tag.name))

GetLatestPrereleaseTag_Last(tags, ident) ==
  LET found == SelectSeq(SelectSeq(tags, IsPrereleaseTag),
                         LAMBDA tag : Match(StripPrefix(tag.name), ident))
  IN IF Len(found) = 0 THEN UndefinedTag ELSE found[Len(found)]

\* getLatestPrereleaseTag
GetLatestPrereleaseTag(tags, ident) ==
  FirstOrUndefined(
    SelectSeq(SelectSeq(tags, IsPrereleaseTag),
              LAMBDA tag : Match(StripPrefix(tag.name), ident)))

----------------------------------------------------------------------------
(* The tag pipeline *)

MaxTags == 3

TagNames ==
  { <<"v", "1", ".", "0", ".", "0">>,
    <<"v", "2", ".", "0", ".", "0">>,
    <<"v", "1", "0", ".", "0", ".", "0">>,
    <<"v", "2", ".", "0", ".", "0", "-", "b", ".", "1">>,
    <<"v", "2", ".", "0", ".", "0", "-", "b", ".", "2">>,
    <<"v", "2", ".", "0", ".", "0", "-", "r", "c">>,
    <<"v", "1", ".", "0", ".", "0", "+", "k">>,
    <<"2", ".", "0", ".", "1">>,
    <<"v", "0", "1", ".", "0">> }

Identifiers == {<<"b">>, <<"r", "c">>}

\* The commit of the i-th tag listed.
Shas == <<"sha1", "sha2", "sha3", "sha4", "sha5", "sha6">>

NoRules ==
  /\ customRules = <<>>
  /\ customReleaseTypes = <<>>
  /\ mappedReleaseRules = <<>>
  /\ mergedRules = <<>>
  /\ changelogRules = <<>>

InitTags ==
  /\ pc = "listed"
  /\ log = <<>>
  /\ \E names \in SeqsUpTo(TagNames, MaxTags) :
       listedTags = [i \in 1..Len(names) |->
                       [name |-> names[i], commit |-> [sha |-> Shas[i]]]]
  /\ validTags = <<>>
  /\ latestTag = UndefinedTag
  /\ tagsArg = <<>>
  /\ identifier = <<>>
  /\ latestPrereleaseTag = UndefinedTag
  /\ NoRules
  /\ NoCommits

ValidTags ==
  /\ pc = "listed"
  /\ LET r == GetValidTags(listedTags) IN
       /\ validTags' = r.tags
       /\ log' = r.log
  /\ pc' = "valid"
  /\ UNCHANGED <<listedTags, latestTag, tagsArg, identifier,
                 latestPrereleaseTag, ruleVars, commitVars>>

LatestTag ==
  /\ pc = "valid"
  /\ latestTag' = GetLatestTag(validTags, tagPrefix)
  /\ pc' = "latest"
  /\ UNCHANGED <<log, listedTags, validTags, tagsArg, identifier,
                 latestPrereleaseTag, ruleVars, commitVars>>

\* getLatestPrereleaseTag on the sorted valid tags, or on a list in the
\* order the caller has it.
LatestPrereleaseTag ==
  /\ pc = "latest"
  /\ \E tags \in {validTags, listedTags}, ident \in Identifiers :
       /\ tagsArg' = tags
       /\ identifier' = ident
       /\ latestPrereleaseTag' = GetLatestPrereleaseTag(tags, ident)
  /\ pc' = "done"
  /\ UNCHANGED <<log, listedTags, validTags, latestTag, ruleVars, commitVars>>

NextTags == ValidTags \/ LatestTag \/ LatestPrereleaseTag

SpecTags == InitTags /\ [][NextTags]_vars

----------------------------------------------------------------------------
(* Properties of the tag pipeline *)

Stripped(tag) == StripPrefix(tag.name)

\* C5: getValidTags returns exactly the listed tags whose stripped name is
\* valid semver, by descending precedence of the stripped names: no tag
\* comes before one of higher precedence, and a prerelease comes after the
\* release of the same major.minor.patch.
C5_ValidSortedDescending ==
  pc \in {"valid", "latest", "done"} =>
    /\ Range(validTags) = {tag \in Range(listedTags) : Valid(Stripped(tag))}
    /\ Len(validTags) = Cardinality(Range(validTags))
    /\ \A i, j \in 1..Len(validTags) :
         i < j =>
           /\ Compare(Stripped(validTags[i]), Stripped(validTags[j])) >= 0
           /\ LET x == Parse(Stripped(validTags[i]))
                  y == Parse(Stripped(validTags[j]))
              IN ~(/\ x.major = y.major /\ x.minor = y.minor
                   /\ x.patch = y.patch
                   /\ Len(x.prerelease) > 0 /\ Len(y.prerelease) = 0)

C5_Witness ==
  /\ pc = "valid"
  /\ Len(listedTags) = 3
  /\ ~Valid(Stripped(listedTags[2]))
  /\ Len(validTags) = 2
  /\ validTags[1] = listedTags[3]
  /\ validTags[2] = listedTags[1]
  /\ Len(Parse(Stripped(validTags[2])).prerelease) > 0
  /\ Parse(Stripped(validTags[1])).major = 2

StableTags == SelectSeq(validTags, LAMBDA tag : ~Prerelease(Stripped(tag)))

\* C6: on the output of getValidTags, getLatestTag returns the first tag
\* without a prerelease component, which is the stable tag of highest
\* precedence; with no such tag it returns {name: tagPrefix + '0.0.0',
\* commit: {sha: 'HEAD'}}.  The result is never absent: it is a tag of the
\* list or that synthetic tag.
C6_LatestStableOrZero ==
  pc \in {"latest", "done"} =>
    /\ latestTag # UndefinedTag
    /\ latestTag \in Range(validTags) \/ latestTag = ZeroTag(tagPrefix)
    /\ IF Len(StableTags) > 0
       THEN /\ latestTag = StableTags[1]
            /\ \A tag \in Range(StableTags) :
                 Compare(Stripped(latestTag), Stripped(tag)) >= 0
       ELSE /\ latestTag.name = <<"v", "0", ".", "0", ".", "0">>
            /\ latestTag.commit.sha = "HEAD"

C6_Witness ==
  /\ pc = "latest"
  /\ Len(validTags) = 3
  /\ Prerelease(Stripped(validTags[1]))
  /\ Prerelease(Stripped(validTags[2]))
  /\ latestTag = validTags[3]

Qualifying ==
  SelectSeq(tagsArg, LAMBDA tag :
    Prerelease(Stripped(tag)) /\ Match(Stripped(tag), identifier))

\* C7: for every tag list in the order given, getLatestPrereleaseTag
\* returns the tag of highest precedence among those with a prerelease
\* component that match the identifier, and undefined when there is none.
C7_HighestInAnyOrder ==
  pc = "done" =>
    IF Len(Qualifying) = 0 THEN latestPrereleaseTag = UndefinedTag
    ELSE /\ latestPrereleaseTag \in Range(Qualifying)
         /\ \A tag \in Range(Qualifying) :
              Compare(Stripped(latestPrereleaseTag), Stripped(tag)) >= 0

\* C7, amended: getLatestPrereleaseTag returns the first tag, in the order
\* of the list, with a prerelease component and a match of the identifier;
\* that is the one of highest precedence when the list is the output of
\* getValidTags (sorted descending).  Without such a tag it returns
\* undefined: never the synthetic tag, never a stable tag.
C7_FirstInListOrder ==
  pc = "done" =>
    /\ latestPrereleaseTag # ZeroTag(tagPrefix)
    /\ IF Len(Qualifying) = 0 THEN latestPrereleaseTag = UndefinedTag
       ELSE /\ latestPrereleaseTag = Qualifying[1]
            /\ Prerelease(Stripped(latestPrereleaseTag))
            /\ tagsArg = validTags =>
                 \A tag \in Range(Qualifying) :
                   Compare(Stripped(latestPrereleaseTag), Stripped(tag)) >= 0

C7_Witness ==
  /\ pc = "done"
  /\ tagsArg = validTags
  /\ tagsArg # listedTags
  /\ Len(Qualifying) = 2
  /\ Len(tagsArg) = 3
  /\ latestPrereleaseTag = tagsArg[2]
  /\ Compare(Stripped(Qualifying[1]), Stripped(Qualifying[2])) > 0

----------------------------------------------------------------------------
(* getCommits, getScopedCommits *)

w_build == <<"b", "u", "i", "l", "d">>
w_ci == <<"c", "i">>
w_fix == <<"f", "i", "x">>
w_perf == <<"p", "e", "r", "f">>
w_refactor == <<"r", "e", "f", "a", "c", "t", "o", "r">>
w_revert == <<"r", "e", "v", "e", "r", "t">>
w_style == <<"s", "t", "y", "l", "e">>
w_test == <<"t", "e", "s", "t">>
w_wip == <<"w", "i", "p">>
w_api == <<"a", "p", "i">>
w_abi == <<"a", "b", "i">>
w_web == <<"w", "e", "b">>
w_a_i == <<"a", ".", "i">>

\* The alternation of the pattern, in its order.
ConventionalTypes ==
  <<w_build, w_chore, w_ci, w_docs, w_feat, w_fix, w_perf, w_refactor,
    w_revert, w_style, w_test>>

StartsWithAt(s, i, word) ==
  i + Len(word) - 1 <= Len(s) /\ SubSeq(s, i, i + Len(word) - 1) = word

\* [\w ]
IsWordOrSpace(c) == IsLetter(c) \/ IsDigit(c) \/ c = "_" \/ c = " "

\* One character of the scope, read as a pattern: '.' matches any character
\* but a line terminator, a letter or digit matches itself.
PatternCharMatches(p, c) == IF p = "." THEN c # "\n" ELSE p = c

\* The scope, read as a pattern of letters, digits and '.', matches the
\* characters of s from i on.
ScopePatternMatchesAt(s, i, scope) ==
  /\ i + Len(scope) - 1 <= Len(s)
  /\ \A k \in 1..Len(scope) : PatternCharMatches(scope[k], s[i + k - 1])

\* message.match(re) as a truth value, for
\* re = ^(build|...|test)\(<scope>\): [\w ]+
MatchesScope(message, scope) ==
  \E t \in 1..Len(ConventionalTypes) :
    LET type == ConventionalTypes[t]
        open == Len(type) + 1
        close == open + Len(scope) + 1
    IN /\ StartsWithAt(message, 1, type)
       /\ StartsWithAt(message, open, <<"(">>)
       /\ ScopePatternMatchesAt(message, open + 1, scope)
       /\ StartsWithAt(message, close, <<")", ":", " ">>)
       /\ close + 3 <= Len(message)
       /\ IsWordOrSpace(message[close + 3])

SomeScopeMatches_Every(message, scopeList) ==
  \A k \in 1..Len(scopeList) : MatchesScope(message, scopeList[k])

\* scopes.some(...)
SomeScopeMatches(message, scopeList) ==
  \E k \in 1..Len(scopeList) : MatchesScope(message, scopeList[k])

\* getScopedCommits
GetScopedCommits(commitList, scopeList) ==
  SelectSeq(commitList, LAMBDA commit :
    SomeScopeMatches(commit.message, scopeList))

\* getCommits: the commits of the comparison with a message, as
\* {message, hash}.
GetCommits(raw) ==
  LET withMessage == SelectSeq(raw, LAMBDA commit : Truthy(commit.commit.message))
  IN [i \in 1..Len(withMessage) |->
        [message |-> withMessage[i].commit.message,
         hash |-> withMessage[i].sha]]

----------------------------------------------------------------------------
(* The commit pipeline *)

MaxCommits == 2
MaxScopes == 2

Header(type, scope) == type \o <<"(">> \o scope \o <<")">>

Messages ==
  { Header(w_feat, w_api) \o <<":", " ", "x">>,
    Header(w_fix, w_web) \o <<":", " ", "y", " ", "z", "!">>,
    w_chore \o <<":", " ", "z">>,
    Header(w_feat, w_abi) \o <<":", " ", "x">>,
    Header(w_feat, w_api) \o <<":", "x">>,
    Header(w_feat, w_api) \o <<":", " ", "!">>,
    Header(w_wip, w_api) \o <<":", " ", "x">>,
    <<>> }

ScopeNames == {w_api, w_web, w_a_i}

InitCommits ==
  /\ pc = "compared"
  /\ log = <<>>
  /\ \E messages \in SeqsUpTo(Messages, MaxCommits) :
       rawCommits = [i \in 1..Len(messages) |->
                       [sha |-> Shas[i], commit |-> [message |-> messages[i]]]]
  /\ scopes \in SeqsUpTo(ScopeNames, MaxScopes)
  /\ commits = <<>>
  /\ scopedCommits = <<>>
  /\ NoRules
  /\ NoTags

Commits ==
  /\ pc = "compared"
  /\ commits' = GetCommits(rawCommits)
  /\ pc' = "commits"
  /\ UNCHANGED <<log, rawCommits, scopes, scopedCommits, ruleVars, tagVars>>

ScopedCommits ==
  /\ pc = "commits"
  /\ scopedCommits' = GetScopedCommits(commits, scopes)
  /\ pc' = "scoped"
  /\ UNCHANGED <<log, rawCommits, commits, scopes, ruleVars, tagVars>>

NextCommits == Commits \/ ScopedCommits

SpecCommits == InitCommits /\ [][NextCommits]_vars

----------------------------------------------------------------------------
(* Properties of the commit pipeline *)

\* The message starts with a conventional type, '(<scope>): ' with the scope
\* as written, and a first subject character that is a word character or a
\* space.
NamesScope(message, scope) ==
  \E type \in Range(ConventionalTypes) :
    LET header == Header(type, scope) \o <<":", " ">> IN
    /\ Len(message) > Len(header)
    /\ SubSeq(message, 1, Len(header)) = header
    /\ IsWordOrSpace(message[Len(header) + 1])

NamedCommits ==
  SelectSeq(commits, LAMBDA commit :
    \E scope \in Range(scopes) : NamesScope(commit.message, scope))

RECURSIVE IsSubsequence(_, _)
IsSubsequence(a, b) ==
  IF Len(a) = 0 THEN TRUE
  ELSE IF Len(b) = 0 THEN FALSE
  ELSE IF Head(a) = Head(b) THEN IsSubsequence(Tail(a), Tail(b))
  ELSE IsSubsequence(a, Tail(b))

LiteralScopes ==
  \A scope \in Range(scopes) : \A k \in 1..Len(scope) : scope[k] # "."

----------------------------------------------------------------------------
(* The three pipelines together: a run is one of them *)

Init == InitRules \/ InitTags \/ InitCommits

Next == NextRules \/ NextTags \/ NextCommits

Spec == Init /\ [][Next]_vars

====
